---- MODULE Spec2Model ----
(***************************************************************************)
(* Model of authn-server's account store (data/postgres/account_store.go)  *)
(* and of its configuration loader (package config).                       *)
(*                                                                         *)
(* The account store holds no state of its own: its state is the two       *)
(* tables of the backing store.  Every db.Exec / db.Get / db.Select /      *)
(* db.NamedQuery call is one SQL statement and is one atomic step.         *)
(* Archive issues two statements without a transaction, so it is two       *)
(* steps in ConcSpec, where other request contexts may run in between;     *)
(* Spec is the behaviour of a single caller, each handler run to its end.  *)
(***************************************************************************)
EXTENDS Naturals, Integers, Sequences, FiniteSets, TLC

VARIABLES
    accounts,        \* table accounts: sequence of rows, row i has id i
    oauth_accounts,  \* table oauth_accounts: rows in insertion order
    now,             \* the wall clock read by time.Now()
    ret,             \* the call that returned last, and what it returned
    pc,              \* per request context: where it is inside Archive
    archiveID,       \* per request context: the id its Archive was given
    calls,           \* number of statements issued so far
    held,            \* history: the usernames each account stored while live
    env,             \* the process environment read by the loader
    config,          \* the Config value the configurers fill in
    step,            \* index of the next configurer to run; 0 = not loading
    loadErr,         \* the error configure returned ("" = nil)
    outcome          \* what ReadEnv did: "running", "returned" or "panic"

storeVars  == <<accounts, oauth_accounts, now, ret, pc, archiveID, calls, held>>
configVars == <<env, config, step, loadErr, outcome>>
vars       == <<accounts, oauth_accounts, now, ret, pc, archiveID, calls, held,
                env, config, step, loadErr, outcome>>

(***************************************************************************)
(* Bounds of the model                                                     *)
(***************************************************************************)
MaxAccounts == 2
MaxOauth    == 2
MaxTime     == 2
MaxCalls    == 4

AccountIDs    == 1..MaxAccounts
Usernames     == {"alice", "bob"}
Passwords     == {"pw1", "pw2"}
Providers     == {"google"}
ProviderIDs   == {"g1", "g2"}
AccessTokens  == {"tok"}
Contexts      == {"ctx1", "ctx2"}
\* RANDOM()::TEXT as the backing store may produce it
RandomTexts   == {"0.25", "0.5"}

(***************************************************************************)
(* Values                                                                  *)
(***************************************************************************)
\* a nil *time.Time / SQL NULL is the empty sequence, a set one is <<t>>
NULL == <<>>

NoErr               == ""
ConstraintViolation == "ConstraintViolation"

\* MD5 of the texts in RandomTexts, as the backing store's MD5() computes it
MD5(text) ==
    CASE text = "0.25" -> "70da82175ec8a195a3d8b0fa8f69681d"
      [] text = "0.5"  -> "d310cb367d993fb6fb584b198a2fd72c"
      [] text = "0.75" -> "4c8d9ac7c62b7fbf21fb2f2ae14dd65b"

\* CONCAT('@', MD5(RANDOM()::TEXT))
AnonymizedUsername(randomText) == "@" \o MD5(randomText)

Exists(accts, id) == id \in 1..Len(accts)

IsLive(row) == row.deleted_at = NULL

\* the rows of oauth_accounts with the given account_id, in table order
OauthRowsOf(rows, id) == SelectSeq(rows, LAMBDA r : r.account_id = id)

(***************************************************************************)
(* The storage layer's constraints                                         *)
(***************************************************************************)
\* uniqueness of username among the rows whose deleted_at is null:
\* would row `id` holding username u with the given deleted_at collide?
UniqueUsernameViolated(accts, id, u, deleted_at) ==
    /\ deleted_at = NULL
    /\ \E i \in 1..Len(accts) :
          i # id /\ IsLive(accts[i]) /\ accts[i].username = u

\* the foreign key oauth_accounts.account_id -> accounts.id
ForeignKeyViolated(accts, accountID) == ~Exists(accts, accountID)

(***************************************************************************)
(* Queries                                                                 *)
(***************************************************************************)
\* SELECT * FROM accounts WHERE id = $1, then the username is blanked
\* when DeletedAt is set
Find(accts, id) ==
    IF ~Exists(accts, id) THEN <<>>
    ELSE IF accts[id].deleted_at # NULL
         THEN <<[accts[id] EXCEPT !.username = ""]>>
         ELSE <<accts[id]>>

\* FindByUsername as it would be without the deleted_at IS NULL condition
FindByUsernameAnyRow(accts, u) ==
    LET hits == SelectSeq(accts, LAMBDA r : r.username = u)
    IN  IF hits = <<>> THEN <<>> ELSE <<Head(hits)>>

\* SELECT * FROM accounts WHERE username = $1 AND deleted_at IS NULL
FindByUsername(accts, u) ==
    LET hits == SelectSeq(accts, LAMBDA r : r.username = u /\ r.deleted_at = NULL)
    IN  IF hits = <<>> THEN <<>> ELSE <<Head(hits)>>

\* SELECT a.* FROM accounts a INNER JOIN oauth_accounts oa ON a.id = oa.account_id
\* WHERE oa.provider = $1 AND oa.provider_id = $2  (db.Get keeps the first row)
FindByOauthAccount(accts, rows, provider, providerID) ==
    LET hits == SelectSeq(rows, LAMBDA r : /\ r.provider = provider
                                           /\ r.provider_id = providerID
                                           /\ Exists(accts, r.account_id))
    IN  IF hits = <<>> THEN <<>> ELSE <<accts[Head(hits).account_id]>>

\* SELECT * FROM oauth_accounts WHERE account_id = $1
GetOauthAccounts(rows, accountID) == OauthRowsOf(rows, accountID)

(***************************************************************************)
(* Statements of the mutating handlers                                     *)
(***************************************************************************)
\* the models.Account value Create builds, with the id the store returned
NewAccount(id, u, p, t) ==
    [id                   |-> id,
     username             |-> u,
     password             |-> p,
     locked               |-> FALSE,
     require_new_password |-> FALSE,
     password_changed_at  |-> t,
     created_at           |-> t,
     updated_at           |-> t,
     deleted_at           |-> NULL]

\* DeleteOauthAccounts as it would be if it removed one row only
DeleteFirstOauthAccount(rows, id) ==
    LET at == {i \in 1..Len(rows) : rows[i].account_id = id}
    IN  IF at = {} THEN rows
        ELSE LET k == CHOOSE i \in at : \A j \in at : i <= j
             IN  SubSeq(rows, 1, k - 1) \o SubSeq(rows, k + 1, Len(rows))

\* DELETE FROM oauth_accounts WHERE account_id = $1
DeleteOauthAccounts(rows, id) == SelectSeq(rows, LAMBDA r : r.account_id # id)

\* ArchiveAccount as it would be if the UPDATE also reset require_new_password
ArchiveAccountClearingFlag(accts, id, randomText, t) ==
    IF ~Exists(accts, id) THEN accts
    ELSE [accts EXCEPT ![id] = [@ EXCEPT !.username   = AnonymizedUsername(randomText),
                                         !.password   = "",
                                         !.require_new_password = FALSE,
                                         !.deleted_at = <<t>>]]

\* UPDATE accounts SET username = CONCAT('@', MD5(RANDOM()::TEXT)),
\*   password = '', deleted_at = now WHERE id = $3
ArchiveAccount(accts, id, randomText, t) ==
    IF ~Exists(accts, id) THEN accts
    ELSE [accts EXCEPT ![id] = [@ EXCEPT !.username   = AnonymizedUsername(randomText),
                                         !.password   = "",
                                         !.deleted_at = <<t>>]]

\* SetLocked as it would be if the UPDATE flipped the column (locked = NOT locked)
SetLockedFlipping(accts, id, locked, t) ==
    IF ~Exists(accts, id) THEN accts
    ELSE [accts EXCEPT ![id] = [@ EXCEPT !.locked = ~@, !.updated_at = t]]

\* UPDATE accounts SET locked = $1, updated_at = $2 WHERE id = $3
SetLocked(accts, id, locked, t) ==
    IF ~Exists(accts, id) THEN accts
    ELSE [accts EXCEPT ![id] = [@ EXCEPT !.locked = locked, !.updated_at = t]]

\* UPDATE accounts SET require_new_password = true, updated_at = $2 WHERE id = $3
SetRequireNewPassword(accts, id, t) ==
    IF ~Exists(accts, id) THEN accts
    ELSE [accts EXCEPT ![id] = [@ EXCEPT !.require_new_password = TRUE,
                                         !.updated_at = t]]

\* SetPasswordRow as it would be without require_new_password in its SET list
SetPasswordRowKeepingFlag(accts, id, p, t1, t2) ==
    IF ~Exists(accts, id) THEN accts
    ELSE [accts EXCEPT ![id] = [@ EXCEPT !.password = p,
                                         !.password_changed_at = t1,
                                         !.updated_at = t2]]

\* UPDATE accounts SET password = $1, require_new_password = false,
\*   password_changed_at = $3, updated_at = $4 WHERE id = $5
\* ($3 and $4 are two reads of the clock)
SetPasswordRow(accts, id, p, t1, t2) ==
    IF ~Exists(accts, id) THEN accts
    ELSE [accts EXCEPT ![id] = [@ EXCEPT !.password = p,
                                         !.require_new_password = FALSE,
                                         !.password_changed_at = t1,
                                         !.updated_at = t2]]

\* SetUsername as it would be if the UPDATE also reset deleted_at to NULL
SetUsernameReviving(accts, id, u, t) ==
    IF ~Exists(accts, id) THEN accts
    ELSE [accts EXCEPT ![id] = [@ EXCEPT !.username = u, !.updated_at = t,
                                         !.deleted_at = NULL]]

\* UPDATE accounts SET username = $1, updated_at = $2 WHERE id = $3
SetUsername(accts, id, u, t) ==
    IF ~Exists(accts, id) THEN accts
    ELSE [accts EXCEPT ![id] = [@ EXCEPT !.username = u, !.updated_at = t]]

(***************************************************************************)
(* Handlers of AccountStore.  A statement fails only when the storage      *)
(* layer's constraints reject it.                                          *)
(***************************************************************************)
Returns(op, id, arg, res, err) ==
    ret' = [op |-> op, id |-> id, arg |-> arg, res |-> res, err |-> err]

\* one more step of the run, while the run's bound allows it
Issue == calls < MaxCalls /\ calls' = calls + 1

\* history of the step: every username a live row stores after it is added to
\* the names its account has held while live
Remember ==
    held' = [id \in AccountIDs |->
                IF Exists(accounts', id) /\ IsLive(accounts'[id])
                THEN held[id] \cup {accounts'[id].username}
                ELSE held[id]]

StoreInit ==
    /\ accounts = <<>>
    /\ oauth_accounts = <<>>
    /\ now = 1
    /\ ret = [op |-> "none", id |-> 0, arg |-> "", res |-> <<>>, err |-> NoErr]
    /\ pc = [c \in Contexts |-> "idle"]
    /\ archiveID = [c \in Contexts |-> 0]
    /\ calls = 0
    /\ held = [id \in AccountIDs |-> {}]

\* time passes between calls
Tick ==
    /\ now < MaxTime
    /\ now' = now + 1
    /\ UNCHANGED <<accounts, oauth_accounts, ret, pc, archiveID, calls, held>>
    /\ UNCHANGED configVars

FindCall(id) ==
    /\ Returns("Find", id, "", Find(accounts, id), NoErr)
    /\ UNCHANGED <<accounts, oauth_accounts, now, pc, archiveID>>
    /\ Issue
    /\ Remember
    /\ UNCHANGED configVars

FindByUsernameCall(u) ==
    /\ Returns("FindByUsername", 0, u, FindByUsername(accounts, u), NoErr)
    /\ UNCHANGED <<accounts, oauth_accounts, now, pc, archiveID>>
    /\ Issue
    /\ Remember
    /\ UNCHANGED configVars

FindByOauthAccountCall(provider, providerID) ==
    /\ Returns("FindByOauthAccount", 0, providerID,
               FindByOauthAccount(accounts, oauth_accounts, provider, providerID), NoErr)
    /\ UNCHANGED <<accounts, oauth_accounts, now, pc, archiveID>>
    /\ Issue
    /\ Remember
    /\ UNCHANGED configVars

GetOauthAccountsCall(id) ==
    /\ Returns("GetOauthAccounts", id, "", GetOauthAccounts(oauth_accounts, id), NoErr)
    /\ UNCHANGED <<accounts, oauth_accounts, now, pc, archiveID>>
    /\ Issue
    /\ Remember
    /\ UNCHANGED configVars

\* Create as it would be if the insert's error were not checked
CreateIgnoringInsertError(u, p) ==
    /\ IF UniqueUsernameViolated(accounts, 0, u, NULL)
       THEN /\ Returns("Create", 0, u, <<NewAccount(0, u, p, now)>>, NoErr)
            /\ UNCHANGED accounts
       ELSE /\ Len(accounts) < MaxAccounts
            /\ accounts' = Append(accounts, NewAccount(Len(accounts) + 1, u, p, now))
            /\ Returns("Create", Len(accounts) + 1, u,
                       <<NewAccount(Len(accounts) + 1, u, p, now)>>, NoErr)
    /\ UNCHANGED <<oauth_accounts, now, pc, archiveID>>
    /\ Issue
    /\ Remember
    /\ UNCHANGED configVars

\* INSERT INTO accounts ... RETURNING id; an error of the insert is returned
\* with a nil account
Create(u, p) ==
    /\ IF UniqueUsernameViolated(accounts, 0, u, NULL)
       THEN /\ Returns("Create", 0, u, <<>>, ConstraintViolation)
            /\ UNCHANGED accounts
       ELSE /\ Len(accounts) < MaxAccounts
            /\ accounts' = Append(accounts, NewAccount(Len(accounts) + 1, u, p, now))
            /\ Returns("Create", Len(accounts) + 1, u,
                       <<NewAccount(Len(accounts) + 1, u, p, now)>>, NoErr)
    /\ UNCHANGED <<oauth_accounts, now, pc, archiveID>>
    /\ Issue
    /\ Remember
    /\ UNCHANGED configVars

\* AddOauthAccount as it would be if the insert's error were dropped
AddOauthAccountIgnoringInsertError(accountID, provider, providerID, accessToken) ==
    /\ IF ForeignKeyViolated(accounts, accountID)
       THEN /\ Returns("AddOauthAccount", accountID, providerID, <<>>, NoErr)
            /\ UNCHANGED oauth_accounts
       ELSE /\ Len(oauth_accounts) < MaxOauth
            /\ oauth_accounts' = Append(oauth_accounts,
                    [account_id   |-> accountID,
                     provider     |-> provider,
                     provider_id  |-> providerID,
                     access_token |-> accessToken,
                     created_at   |-> now,
                     updated_at   |-> now])
            /\ Returns("AddOauthAccount", accountID, providerID, <<>>, NoErr)
    /\ UNCHANGED <<accounts, now, pc, archiveID>>
    /\ Issue
    /\ Remember
    /\ UNCHANGED configVars

\* INSERT INTO oauth_accounts ...; the insert's error is returned as it is
AddOauthAccount(accountID, provider, providerID, accessToken) ==
    /\ IF ForeignKeyViolated(accounts, accountID)
       THEN /\ Returns("AddOauthAccount", accountID, providerID, <<>>, ConstraintViolation)
            /\ UNCHANGED oauth_accounts
       ELSE /\ Len(oauth_accounts) < MaxOauth
            /\ oauth_accounts' = Append(oauth_accounts,
                    [account_id   |-> accountID,
                     provider     |-> provider,
                     provider_id  |-> providerID,
                     access_token |-> accessToken,
                     created_at   |-> now,
                     updated_at   |-> now])
            /\ Returns("AddOauthAccount", accountID, providerID, <<>>, NoErr)
    /\ UNCHANGED <<accounts, now, pc, archiveID>>
    /\ Issue
    /\ Remember
    /\ UNCHANGED configVars

\* Archive run to its end by a single caller: the DELETE, then the UPDATE
Archive(id, randomText) ==
    /\ oauth_accounts' = DeleteOauthAccounts(oauth_accounts, id)
    /\ accounts' = ArchiveAccount(accounts, id, randomText, now)
    /\ Returns("Archive", id, "", <<>>, NoErr)
    /\ UNCHANGED <<now, pc, archiveID>>
    /\ Issue
    /\ Remember
    /\ UNCHANGED configVars

\* Archive's first statement, issued by request context c
ArchiveDelete(c, id) ==
    /\ pc[c] = "idle"
    /\ oauth_accounts' = DeleteOauthAccounts(oauth_accounts, id)
    /\ pc' = [pc EXCEPT ![c] = "archive_update"]
    /\ archiveID' = [archiveID EXCEPT ![c] = id]
    /\ UNCHANGED <<accounts, now, ret>>
    /\ Issue
    /\ Remember
    /\ UNCHANGED configVars

\* Archive's second statement, issued by request context c, and its return
ArchiveUpdate(c, randomText) ==
    /\ pc[c] = "archive_update"
    /\ accounts' = ArchiveAccount(accounts, archiveID[c], randomText, now)
    /\ Returns("Archive", archiveID[c], "", <<>>, NoErr)
    /\ pc' = [pc EXCEPT ![c] = "idle"]
    /\ archiveID' = [archiveID EXCEPT ![c] = 0]
    /\ UNCHANGED <<oauth_accounts, now>>
    /\ Issue
    /\ Remember
    /\ UNCHANGED configVars

Lock(id) ==
    /\ accounts' = SetLocked(accounts, id, TRUE, now)
    /\ Returns("Lock", id, "", <<>>, NoErr)
    /\ UNCHANGED <<oauth_accounts, now, pc, archiveID>>
    /\ Issue
    /\ Remember
    /\ UNCHANGED configVars

Unlock(id) ==
    /\ accounts' = SetLocked(accounts, id, FALSE, now)
    /\ Returns("Unlock", id, "", <<>>, NoErr)
    /\ UNCHANGED <<oauth_accounts, now, pc, archiveID>>
    /\ Issue
    /\ Remember
    /\ UNCHANGED configVars

RequireNewPassword(id) ==
    /\ accounts' = SetRequireNewPassword(accounts, id, now)
    /\ Returns("RequireNewPassword", id, "", <<>>, NoErr)
    /\ UNCHANGED <<oauth_accounts, now, pc, archiveID>>
    /\ Issue
    /\ Remember
    /\ UNCHANGED configVars

\* the two time.Now() arguments are read one after the other: the second
\* is not earlier than the first
SetPassword(id, p) ==
    \E t2 \in now..MaxTime :
        /\ t2 <= now + 1
        /\ accounts' = SetPasswordRow(accounts, id, p, now, t2)
        /\ now' = t2
        /\ Returns("SetPassword", id, p, <<>>, NoErr)
        /\ UNCHANGED <<oauth_accounts, pc, archiveID>>
        /\ Issue
        /\ Remember
        /\ UNCHANGED configVars

\* UpdateUsername as it would be if the UPDATE's error were dropped
UpdateUsernameIgnoringError(id, u) ==
    /\ IF /\ Exists(accounts, id)
          /\ UniqueUsernameViolated(accounts, id, u, accounts[id].deleted_at)
       THEN /\ Returns("UpdateUsername", id, u, <<>>, NoErr)
            /\ UNCHANGED accounts
       ELSE /\ accounts' = SetUsername(accounts, id, u, now)
            /\ Returns("UpdateUsername", id, u, <<>>, NoErr)
    /\ UNCHANGED <<oauth_accounts, now, pc, archiveID>>
    /\ Issue
    /\ Remember
    /\ UNCHANGED configVars

UpdateUsername(id, u) ==
    /\ IF /\ Exists(accounts, id)
          /\ UniqueUsernameViolated(accounts, id, u, accounts[id].deleted_at)
       THEN /\ Returns("UpdateUsername", id, u, <<>>, ConstraintViolation)
            /\ UNCHANGED accounts
       ELSE /\ accounts' = SetUsername(accounts, id, u, now)
            /\ Returns("UpdateUsername", id, u, <<>>, NoErr)
    /\ UNCHANGED <<oauth_accounts, now, pc, archiveID>>
    /\ Issue
    /\ Remember
    /\ UNCHANGED configVars

\* the calls that are one statement each
SingleStatement ==
    \/ Tick
    \/ \E id \in AccountIDs : FindCall(id)
    \/ \E u \in Usernames : FindByUsernameCall(u)
    \/ \E pr \in Providers, pid \in ProviderIDs : FindByOauthAccountCall(pr, pid)
    \/ \E id \in AccountIDs : GetOauthAccountsCall(id)
    \/ \E u \in Usernames, p \in Passwords : Create(u, p)
    \/ \E id \in AccountIDs, pr \in Providers, pid \in ProviderIDs, tok \in AccessTokens :
          AddOauthAccount(id, pr, pid, tok)
    \/ \E id \in AccountIDs : Lock(id)
    \/ \E id \in AccountIDs : Unlock(id)
    \/ \E id \in AccountIDs : RequireNewPassword(id)
    \/ \E id \in AccountIDs, p \in Passwords : SetPassword(id, p)
    \/ \E id \in AccountIDs, u \in Usernames : UpdateUsername(id, u)

ConfigIdle ==
    /\ env = <<>>
    /\ config = <<>>
    /\ step = 0
    /\ loadErr = NoErr
    /\ outcome = "none"

Init == StoreInit /\ ConfigIdle

Next ==
    \/ SingleStatement
    \/ \E id \in AccountIDs, r \in RandomTexts : Archive(id, r)

\* a single caller: every handler runs to its end before the next call
Spec == Init /\ [][Next]_vars

ConcNext ==
    \/ SingleStatement
    \/ \E c \in Contexts, id \in AccountIDs : ArchiveDelete(c, id)
    \/ \E c \in Contexts, r \in RandomTexts : ArchiveUpdate(c, r)

\* several request contexts: statements of different calls interleave
ConcSpec == Init /\ [][ConcNext]_vars

(***************************************************************************)
(* Configuration loader: strings                                           *)
(***************************************************************************)
Char(s, i) == SubSeq(s, i, i)

HasPrefix(s, prefix) ==
    Len(s) >= Len(prefix) /\ SubSeq(s, 1, Len(prefix)) = prefix

\* strings.Index: position (from 1) of the first occurrence of sep in s, 0 if none
Index(s, sep) ==
    LET at == {i \in 1..(Len(s) + 1) :
                  i + Len(sep) - 1 <= Len(s) /\ SubSeq(s, i, i + Len(sep) - 1) = sep}
    IN  IF at = {} THEN 0 ELSE CHOOSE i \in at : \A j \in at : i <= j

\* strings.Split with an empty separator: one string per character
Explode(s) == [i \in 1..Len(s) |-> Char(s, i)]

RECURSIVE SplitOn(_, _)
SplitOn(s, sep) ==
    LET i == Index(s, sep)
    IN  IF i = 0 THEN <<s>>
        ELSE <<SubSeq(s, 1, i - 1)>> \o SplitOn(SubSeq(s, i + Len(sep), Len(s)), sep)

\* strings.Split(s, sep): s cut at every occurrence of sep
Split(s, sep) == IF sep = "" THEN Explode(s) ELSE SplitOn(s, sep)

UpperLetters == "ABCDEFGHIJKLMNOPQRSTUVWXYZ"
LowerLetters == "abcdefghijklmnopqrstuvwxyz"
DecimalDigits == "0123456789"

IsLetter(ch) == Index(UpperLetters, ch) > 0 \/ Index(LowerLetters, ch) > 0
IsDigit(ch)  == Index(DecimalDigits, ch) > 0

RECURSIVE ToLower(_)
ToLower(s) ==
    IF s = "" THEN ""
    ELSE LET ch == Char(s, 1)
             k  == Index(UpperLetters, ch)
         IN  (IF k > 0 THEN Char(LowerLetters, k) ELSE ch) \o ToLower(SubSeq(s, 2, Len(s)))

RECURSIVE ParseDigits(_)
ParseDigits(s) ==
    IF s = "" THEN 0
    ELSE 10 * ParseDigits(SubSeq(s, 1, Len(s) - 1))
         + (Index(DecimalDigits, Char(s, Len(s))) - 1)

\* strconv.Atoi: an optional sign and decimal digits, anything else is an error
Atoi(s) ==
    LET signed == s # "" /\ Char(s, 1) \in {"+", "-"}
        digits == IF signed THEN SubSeq(s, 2, Len(s)) ELSE s
        ok     == digits # "" /\ \A i \in 1..Len(digits) : IsDigit(Char(digits, i))
    IN  IF ~ok THEN [val |-> 0, err |-> "invalid syntax"]
        ELSE [val |-> IF signed /\ Char(s, 1) = "-" THEN 0 - ParseDigits(digits)
                      ELSE ParseDigits(digits),
              err |-> NoErr]

(***************************************************************************)
(* net/url.Parse, for raw URLs without userinfo, port, escapes or fragment *)
(***************************************************************************)
\* getScheme: the letters, digits, "+", "-", "." before the first ":"
RECURSIVE SchemeEnd(_, _)
SchemeEnd(raw, i) ==
    IF i > Len(raw) THEN [at |-> 0, err |-> NoErr]
    ELSE LET ch == Char(raw, i)
         IN  IF IsLetter(ch) THEN SchemeEnd(raw, i + 1)
             ELSE IF IsDigit(ch) \/ ch \in {"+", "-", "."}
                  THEN IF i = 1 THEN [at |-> 0, err |-> NoErr]
                       ELSE SchemeEnd(raw, i + 1)
             ELSE IF ch = ":"
                  THEN IF i = 1 THEN [at |-> 0, err |-> "missing protocol scheme"]
                       ELSE [at |-> i, err |-> NoErr]
             ELSE [at |-> 0, err |-> NoErr]

NoURL == [Scheme |-> "", Opaque |-> "", Host |-> "", Path |-> "", RawQuery |-> ""]

\* the authority and the path of "//authority/path"
ParseAuthority(scheme, after, query) ==
    IF Index(after, "/") = 0
    THEN [url |-> [Scheme |-> scheme, Opaque |-> "", Host |-> after, Path |-> "",
                   RawQuery |-> query],
          err |-> NoErr]
    ELSE [url |-> [Scheme |-> scheme, Opaque |-> "",
                   Host |-> SubSeq(after, 1, Index(after, "/") - 1),
                   Path |-> SubSeq(after, Index(after, "/"), Len(after)),
                   RawQuery |-> query],
          err |-> NoErr]

\* what follows the scheme, the query cut off: opaque, authority and path, or path
ParseHierarchy(scheme, rest, query) ==
    IF ~HasPrefix(rest, "/") /\ scheme # ""
    THEN [url |-> [NoURL EXCEPT !.Scheme = scheme, !.Opaque = rest, !.RawQuery = query],
          err |-> NoErr]
    ELSE IF /\ ~HasPrefix(rest, "/")
            /\ Index(rest, ":") > 0
            /\ (Index(rest, "/") = 0 \/ Index(rest, ":") < Index(rest, "/"))
    THEN [url |-> NoURL, err |-> "first path segment in URL cannot contain colon"]
    ELSE IF HasPrefix(rest, "//") /\ (scheme # "" \/ ~HasPrefix(rest, "///"))
    THEN ParseAuthority(scheme, SubSeq(rest, 3, Len(rest)), query)
    ELSE [url |-> [Scheme |-> scheme, Opaque |-> "", Host |-> "", Path |-> rest,
                   RawQuery |-> query],
          err |-> NoErr]

\* what follows the scheme: the query is cut off at the first "?"
ParseAfterScheme(scheme, rest) ==
    IF Index(rest, "?") = 0
    THEN ParseHierarchy(scheme, rest, "")
    ELSE ParseHierarchy(scheme, SubSeq(rest, 1, Index(rest, "?") - 1),
                        SubSeq(rest, Index(rest, "?") + 1, Len(rest)))

\* the scheme is lower-cased
ParseWithScheme(raw, sch) ==
    IF sch.err # NoErr THEN [url |-> NoURL, err |-> sch.err]
    ELSE IF sch.at = 0 THEN ParseAfterScheme("", raw)
    ELSE ParseAfterScheme(ToLower(SubSeq(raw, 1, sch.at - 1)),
                          SubSeq(raw, sch.at + 1, Len(raw)))

UrlParse(raw) == ParseWithScheme(raw, SchemeEnd(raw, 1))

(***************************************************************************)
(* Configuration loader: the environment and the Config value              *)
(***************************************************************************)
\* os.LookupEnv: <<>> when the name is not set, <<value>> when it is
LookupEnv(e, name) == e[name]

\* the environments the loader is run in
Envs ==
    [APP_DOMAINS            : {<<>>, <<"a.com,b.com">>, <<",">>},
     AUTHN_URL              : {<<"https://app.example.com/authn">>, <<"http://app.example.com">>,
                               <<"HTTPS://h/x">>, <<":bad">>},
     SECRET_KEY_BASE        : {<<"s3cret">>},
     BCRYPT_COST            : {<<>>, <<"9">>, <<"10">>, <<"12">>, <<"x">>},
     PASSWORD_POLICY_SCORE  : {<<>>, <<"5">>},
     DATABASE_URL           : {<<"postgres://db/authn">>, <<":bad">>},
     REDIS_URL              : {<<"redis://cache/1">>, <<":bad">>},
     USERNAME_IS_EMAIL      : {<<"true">>},
     EMAIL_USERNAME_DOMAINS : {<<>>, <<"x.com,y.com">>},
     REFRESH_TOKEN_TTL      : {<<>>},
     ACCESS_TOKEN_TTL       : {<<>>, <<"x">>}]

\* the keys rsa.GenerateKey may produce
IdentityKeys == {"key1", "key2"}

\* Config{}: every field at its zero value; a nil pointer or slice is <<>>
ZeroConfig ==
    [ApplicationDomains    |-> <<>>,
     BcryptCost            |-> 0,
     UsernameIsEmail       |-> FALSE,
     UsernameMinLength     |-> 0,
     UsernameDomains       |-> <<>>,
     PasswordMinComplexity |-> 0,
     RefreshTokenTTL       |-> 0,
     RedisURL              |-> <<>>,
     DatabaseURL           |-> <<>>,
     SessionSigningKey     |-> <<>>,
     IdentitySigningKey    |-> <<>>,
     AuthNURL              |-> <<>>,
     ForceSSL              |-> FALSE,
     MountedPath           |-> "",
     AccessTokenTTL        |-> 0]

\* what a configurer leaves: the Config and the error it returned
Configured(c, err) == [c |-> c, err |-> err]

\* a required setting: its value, or a failure when it is not set
requireEnv(e, name) ==
    IF LookupEnv(e, name) = <<>>
    THEN [val |-> "", err |-> "missing environment variable: " \o name]
    ELSE [val |-> LookupEnv(e, name)[1], err |-> NoErr]

\* an optional integer setting: the default when not set, else the parsed value
lookupInt(e, name, def) ==
    IF LookupEnv(e, name) = <<>>
    THEN [val |-> def, err |-> NoErr]
    ELSE Atoi(LookupEnv(e, name)[1])

\* an optional boolean setting: the default when not set, else whether the
\* value is one of the truthy strings
lookupBool(e, name, def) ==
    IF LookupEnv(e, name) = <<>>
    THEN [val |-> def, err |-> NoErr]
    ELSE [val |-> ToLower(LookupEnv(e, name)[1]) \in {"t", "true", "yes"}, err |-> NoErr]

\* pbkdf2.Key(base, salt, 2e5, 256, sha256.New), kept as its arguments
derive(base, salt) ==
    <<[kdf |-> "pbkdf2-hmac-sha256", base |-> base, salt |-> salt,
       iter |-> 200000, keyLen |-> 256]>>

(***************************************************************************)
(* The configurers, in the order of the list                               *)
(***************************************************************************)
ConfigureAppDomains(c, e) ==
    LET r == requireEnv(e, "APP_DOMAINS")
    IN  IF r.err = NoErr
        THEN Configured([c EXCEPT !.ApplicationDomains = Split(",", r.val)], r.err)
        ELSE Configured(c, r.err)

\* ConfigureAuthNURL as it would be if ForceSSL were read off the raw value
ConfigureAuthNURLRawPrefix(c, e) ==
    LET r == requireEnv(e, "AUTHN_URL")
        u == UrlParse(r.val)
    IN  IF r.err = NoErr /\ u.err = NoErr
        THEN Configured([c EXCEPT !.AuthNURL    = <<u.url>>,
                                  !.MountedPath = u.url.Path,
                                  !.ForceSSL    = HasPrefix(r.val, "https")], r.err)
        ELSE Configured(c, r.err)

\* the error of url.Parse is assigned to a variable of the inner block:
\* the error returned is requireEnv's
ConfigureAuthNURL(c, e) ==
    LET r == requireEnv(e, "AUTHN_URL")
        u == UrlParse(r.val)
    IN  IF r.err = NoErr /\ u.err = NoErr
        THEN Configured([c EXCEPT !.AuthNURL    = <<u.url>>,
                                  !.MountedPath = u.url.Path,
                                  !.ForceSSL    = (u.url.Scheme = "https")], r.err)
        ELSE Configured(c, r.err)

ConfigureSecretKeyBase(c, e) ==
    LET r == requireEnv(e, "SECRET_KEY_BASE")
    IN  IF r.err = NoErr
        THEN Configured([c EXCEPT !.SessionSigningKey = derive(r.val, "session-key-salt")], r.err)
        ELSE Configured(c, r.err)

\* ConfigureBcryptCost as it would be with the floor off by one
ConfigureBcryptCostOffByOne(c, e) ==
    LET r == lookupInt(e, "BCRYPT_COST", 11)
    IN  IF r.err = NoErr
        THEN IF r.val <= 10
             THEN Configured(c, "BCRYPT_COST is too low")
             ELSE Configured([c EXCEPT !.BcryptCost = r.val], r.err)
        ELSE Configured(c, r.err)

ConfigureBcryptCost(c, e) ==
    LET r == lookupInt(e, "BCRYPT_COST", 11)
    IN  IF r.err = NoErr
        THEN IF r.val < 10
             THEN Configured(c, "BCRYPT_COST is too low")
             ELSE Configured([c EXCEPT !.BcryptCost = r.val], r.err)
        ELSE Configured(c, r.err)

ConfigurePasswordPolicyScore(c, e) ==
    LET r == lookupInt(e, "PASSWORD_POLICY_SCORE", 2)
    IN  IF r.err = NoErr
        THEN Configured([c EXCEPT !.PasswordMinComplexity = r.val], r.err)
        ELSE Configured(c, r.err)

ConfigureDatabaseURL(c, e) ==
    LET r == requireEnv(e, "DATABASE_URL")
        u == UrlParse(r.val)
    IN  IF r.err = NoErr /\ u.err = NoErr
        THEN Configured([c EXCEPT !.DatabaseURL = <<u.url>>], r.err)
        ELSE Configured(c, r.err)

ConfigureRedisURL(c, e) ==
    LET r == requireEnv(e, "REDIS_URL")
        u == UrlParse(r.val)
    IN  IF r.err = NoErr /\ u.err = NoErr
        THEN Configured([c EXCEPT !.RedisURL = <<u.url>>], r.err)
        ELSE Configured(c, r.err)

ConfigureUsernameIsEmail(c, e) ==
    LET r == lookupBool(e, "USERNAME_IS_EMAIL", FALSE)
    IN  IF r.err = NoErr
        THEN Configured([c EXCEPT !.UsernameIsEmail = r.val], r.err)
        ELSE Configured(c, r.err)

ConfigureUsernameDomains(c, e) ==
    IF LookupEnv(e, "EMAIL_USERNAME_DOMAINS") # <<>>
    THEN Configured([c EXCEPT !.UsernameDomains =
                         Split(",", LookupEnv(e, "EMAIL_USERNAME_DOMAINS")[1])], NoErr)
    ELSE Configured(c, NoErr)

\* time.Duration(ttl) * time.Second, kept in seconds
ConfigureRefreshTokenTTL(c, e) ==
    LET r == lookupInt(e, "REFRESH_TOKEN_TTL", 31557600)
    IN  IF r.err = NoErr
        THEN Configured([c EXCEPT !.RefreshTokenTTL = r.val], r.err)
        ELSE Configured(c, r.err)

ConfigureAccessTokenTTL(c, e) ==
    LET r == lookupInt(e, "ACCESS_TOKEN_TTL", 3600)
    IN  IF r.err = NoErr
        THEN Configured([c EXCEPT !.AccessTokenTTL = r.val], r.err)
        ELSE Configured(c, r.err)

ConfigureUsernameMinLength(c, e) ==
    Configured([c EXCEPT !.UsernameMinLength = 3], NoErr)

\* var configurers: the list, by the setting each entry resolves
configurers ==
    <<"APP_DOMAINS", "AUTHN_URL", "SECRET_KEY_BASE", "BCRYPT_COST",
      "PASSWORD_POLICY_SCORE", "DATABASE_URL", "REDIS_URL", "USERNAME_IS_EMAIL",
      "EMAIL_USERNAME_DOMAINS", "REFRESH_TOKEN_TTL", "ACCESS_TOKEN_TTL",
      "UsernameMinLength">>

\* the entry of the list for one setting, applied to a Config
ApplyConfigurer(name, c, e) ==
    CASE name = "APP_DOMAINS"            -> ConfigureAppDomains(c, e)
      [] name = "AUTHN_URL"              -> ConfigureAuthNURL(c, e)
      [] name = "SECRET_KEY_BASE"        -> ConfigureSecretKeyBase(c, e)
      [] name = "BCRYPT_COST"            -> ConfigureBcryptCost(c, e)
      [] name = "PASSWORD_POLICY_SCORE"  -> ConfigurePasswordPolicyScore(c, e)
      [] name = "DATABASE_URL"           -> ConfigureDatabaseURL(c, e)
      [] name = "REDIS_URL"              -> ConfigureRedisURL(c, e)
      [] name = "USERNAME_IS_EMAIL"      -> ConfigureUsernameIsEmail(c, e)
      [] name = "EMAIL_USERNAME_DOMAINS" -> ConfigureUsernameDomains(c, e)
      [] name = "REFRESH_TOKEN_TTL"      -> ConfigureRefreshTokenTTL(c, e)
      [] name = "ACCESS_TOKEN_TTL"       -> ConfigureAccessTokenTTL(c, e)
      [] name = "UsernameMinLength"      -> ConfigureUsernameMinLength(c, e)

(***************************************************************************)
(* The loader.  A failure of the entropy source during key generation is   *)
(* not modelled.                                                           *)
(***************************************************************************)
ConfigInit ==
    /\ StoreInit
    /\ env \in Envs
    /\ config = ZeroConfig
    /\ step = 1
    /\ loadErr = NoErr
    /\ outcome = "running"

\* configure: one turn of its loop over the list; it stops at the first
\* configurer that returns an error and returns that error
configure ==
    /\ outcome = "running"
    /\ loadErr = NoErr
    /\ step \in 1..Len(configurers)
    /\ LET r == ApplyConfigurer(configurers[step], config, env)
       IN  /\ config' = r.c
           /\ loadErr' = r.err
           /\ step' = IF r.err = NoErr THEN step + 1 ELSE step
    /\ UNCHANGED <<env, outcome>>
    /\ UNCHANGED storeVars

\* ReadEnv as it would be if configure's error were not checked
ReadEnvIgnoringError ==
    /\ outcome = "running"
    /\ loadErr # NoErr \/ step = Len(configurers) + 1
    /\ \E key \in IdentityKeys :
           /\ config' = [config EXCEPT !.IdentitySigningKey = <<key>>]
           /\ outcome' = "returned"
    /\ UNCHANGED <<env, step, loadErr>>
    /\ UNCHANGED storeVars

\* ReadEnv after configure has returned: panic on its error, else generate
\* the identity key and return the Config
ReadEnv ==
    /\ outcome = "running"
    /\ loadErr # NoErr \/ step = Len(configurers) + 1
    /\ IF loadErr # NoErr
       THEN /\ outcome' = "panic"
            /\ UNCHANGED config
       ELSE \E key \in IdentityKeys :
                /\ config' = [config EXCEPT !.IdentitySigningKey = <<key>>]
                /\ outcome' = "returned"
    /\ UNCHANGED <<env, step, loadErr>>
    /\ UNCHANGED storeVars

ConfigNext == configure \/ ReadEnv

ConfigSpec == ConfigInit /\ [][ConfigNext]_vars

(***************************************************************************)
(* Properties of the account store                                         *)
(***************************************************************************)
\* a step that is a call of handler op returning (Tick leaves calls alone)
Returned(op) == calls' = calls + 1 /\ ret'.op = op

\* some live account holds username u
HeldByLive(accts, u) == \E i \in 1..Len(accts) : IsLive(accts[i]) /\ accts[i].username = u

\* the usernames a lookup may be made with: the callers' and every stored one
LookupNames == Usernames \cup {accounts[i].username : i \in 1..Len(accounts)}

\* C1: Archive is atomic for concurrent readers: no step makes the deletion of
\* an account's oauth rows visible without making the anonymized username, the
\* cleared password and the deleted_at stamp visible with it.
C1_ArchiveAtomic ==
    [][\A id \in AccountIDs :
          ( /\ Exists(accounts, id)
            /\ OauthRowsOf(oauth_accounts, id) # <<>>
            /\ OauthRowsOf(oauth_accounts', id) = <<>> )
          => /\ accounts'[id].deleted_at # NULL
             /\ accounts'[id].password = ""
             /\ accounts'[id].username \notin Usernames]_vars

\* C2: FindByUsername never returns an account whose deleted_at is set, for
\* any username: neither as the query's result in any reachable state nor as
\* what a call of it returned.
C2_FindByUsernameHidesArchived ==
    /\ \A u \in LookupNames :
          \A i \in 1..Len(FindByUsername(accounts, u)) :
              FindByUsername(accounts, u)[i].deleted_at = NULL
    /\ ret.op = "FindByUsername" =>
          \A i \in 1..Len(ret.res) : ret.res[i].deleted_at = NULL

\* an archived account stores a caller's username again (written after it was
\* archived), and the lookup by that username just returned no account
C2_Witness ==
    /\ ret.op = "FindByUsername"
    /\ ret.res = <<>>
    /\ \E i \in 1..Len(accounts) :
          accounts[i].deleted_at # NULL /\ accounts[i].username = ret.arg

\* C3: right after Archive(id) of an existing account, Find(id) returns a
\* record with an empty username and deleted_at set, and GetOauthAccounts(id)
\* returns the empty sequence.
C3_ArchiveThenFind ==
    (ret.op = "Archive" /\ Exists(accounts, ret.id)) =>
        /\ Len(Find(accounts, ret.id)) = 1
        /\ Find(accounts, ret.id)[1].username = ""
        /\ Find(accounts, ret.id)[1].deleted_at # NULL
        /\ GetOauthAccounts(oauth_accounts, ret.id) = <<>>

\* Archive of an existing account has just returned, while rows linked to
\* another account are still there
C3_Witness ==
    /\ ret.op = "Archive"
    /\ Exists(accounts, ret.id)
    /\ accounts[ret.id].deleted_at # NULL
    /\ oauth_accounts # <<>>

\* C4: Create(u, p) fails with ConstraintViolation and adds no account when a
\* live account holds u, and succeeds, adding a live account with username u,
\* whenever no live account holds u, whatever archived accounts hold.
C4_CreateUniqueAmongLive ==
    [][Returned("Create") =>
          IF HeldByLive(accounts, ret'.arg)
          THEN /\ ret'.err = ConstraintViolation
               /\ ret'.res = <<>>
               /\ accounts' = accounts
          ELSE /\ ret'.err = NoErr
               /\ Len(accounts') = Len(accounts) + 1
               /\ SubSeq(accounts', 1, Len(accounts)) = accounts
               /\ ret'.res = <<accounts'[Len(accounts')]>>
               /\ ret'.res[1].id = Len(accounts')
               /\ ret'.res[1].username = ret'.arg
               /\ ret'.res[1].deleted_at = NULL]_vars

\* Create(u) has just succeeded while an archived account stores username u
C4_Witness ==
    /\ ret.op = "Create"
    /\ ret.err = NoErr
    /\ \E i \in 1..Len(accounts) :
          /\ i # ret.id
          /\ accounts[i].deleted_at # NULL
          /\ accounts[i].username = ret.arg

\* C5: SetPassword(id, p) on an existing account leaves password = p,
\* require_new_password = false, and password_changed_at and updated_at at
\* clock readings taken during the call, password_changed_at not earlier than
\* its previous value.
C5_SetPassword ==
    [][(Returned("SetPassword") /\ Exists(accounts, ret'.id)) =>
          /\ accounts'[ret'.id].password = ret'.arg
          /\ accounts'[ret'.id].require_new_password = FALSE
          /\ accounts'[ret'.id].password_changed_at \in now..now'
          /\ accounts'[ret'.id].updated_at \in now..now'
          /\ accounts'[ret'.id].password_changed_at
                 >= accounts[ret'.id].password_changed_at]_vars

\* SetPassword has just returned for an existing account, later than the
\* account was created
C5_Witness ==
    /\ ret.op = "SetPassword"
    /\ Exists(accounts, ret.id)
    /\ accounts[ret.id].password = ret.arg
    /\ accounts[ret.id].password_changed_at > accounts[ret.id].created_at

(***************************************************************************)
(* Properties of the configuration loader                                  *)
(***************************************************************************)
\* the Config after the first k entries of the list have been applied in order
RECURSIVE ConfigAfter(_, _)
ConfigAfter(e, k) ==
    IF k = 0 THEN ZeroConfig
    ELSE ApplyConfigurer(configurers[k], ConfigAfter(e, k - 1), e).c

\* the error entry k of the list returns at its turn
ErrorOf(e, k) == ApplyConfigurer(configurers[k], ConfigAfter(e, k - 1), e).err

\* the entries of the list that return an error in environment e
Failing(e) == {k \in 1..Len(configurers) : ErrorOf(e, k) # NoErr}

FirstFailing(e) == CHOOSE k \in Failing(e) : \A j \in Failing(e) : k <= j

\* C7: the loader stops at the first failing resolver: resolvers are applied
\* in list order; when one fails, loading aborts with that failure, no later
\* resolver's effect is applied, no identity key is generated and no Config is
\* returned; ReadEnv returns a Config only when every resolver succeeded.
C7_StopsAtFirstFailure ==
    /\ (outcome = "running" /\ loadErr = NoErr) => config = ConfigAfter(env, step - 1)
    /\ outcome = "returned" =>
          /\ Failing(env) = {}
          /\ loadErr = NoErr
          /\ [config EXCEPT !.IdentitySigningKey = <<>>]
                 = ConfigAfter(env, Len(configurers))
    /\ loadErr # NoErr =>
          /\ step = FirstFailing(env)
          /\ loadErr = ErrorOf(env, step)
          /\ config = ConfigAfter(env, step - 1)
          /\ config.IdentitySigningKey = <<>>
          /\ outcome # "returned"
    /\ outcome = "panic" => loadErr # NoErr

\* loading was aborted at BCRYPT_COST, after earlier resolvers had taken
\* effect and with a later setting present that never took effect
C7_Witness ==
    /\ outcome = "panic"
    /\ configurers[step] = "BCRYPT_COST"
    /\ config.SessionSigningKey # <<>>
    /\ env.USERNAME_IS_EMAIL = <<"true">>
    /\ config.UsernameIsEmail = FALSE

\* every setting other than BCRYPT_COST is accepted by its resolver
OtherSettingsValid(e) == Failing([e EXCEPT !.BCRYPT_COST = <<>>]) = {}

\* C8: with the other settings valid, loading fails for BCRYPT_COST below 10,
\* succeeds with BcryptCost equal to the value for 10 or more, and succeeds
\* with BcryptCost = 11 when BCRYPT_COST is not set; no returned Config has
\* BcryptCost below 10.
C8_BcryptCostFloor ==
    /\ (outcome # "running" /\ OtherSettingsValid(env)) =>
          /\ env.BCRYPT_COST = <<"9">>  => outcome = "panic" /\ loadErr # NoErr
          /\ env.BCRYPT_COST = <<"10">> => outcome = "returned" /\ config.BcryptCost = 10
          /\ env.BCRYPT_COST = <<"12">> => outcome = "returned" /\ config.BcryptCost = 12
          /\ env.BCRYPT_COST = <<>>     => outcome = "returned" /\ config.BcryptCost = 11
    /\ outcome = "returned" => config.BcryptCost >= 10

\* loading was aborted for BCRYPT_COST=9 with every other setting valid
C8_Witness ==
    /\ outcome = "panic"
    /\ env.BCRYPT_COST = <<"9">>
    /\ OtherSettingsValid(env)

\* C9: for an AUTHN_URL that parses, the returned Config has AuthNURL equal to
\* the parsed URL, MountedPath equal to its path and ForceSSL true exactly when
\* its scheme is https.
C9_AuthNURL ==
    outcome = "returned" =>
        /\ (env.AUTHN_URL # <<>> /\ UrlParse(env.AUTHN_URL[1]).err = NoErr) =>
              /\ config.AuthNURL = <<UrlParse(env.AUTHN_URL[1]).url>>
              /\ config.MountedPath = UrlParse(env.AUTHN_URL[1]).url.Path
              /\ config.ForceSSL = (UrlParse(env.AUTHN_URL[1]).url.Scheme = "https")
        /\ env.AUTHN_URL = <<"https://app.example.com/authn">> =>
              config.ForceSSL = TRUE /\ config.MountedPath = "/authn"
        /\ env.AUTHN_URL = <<"http://app.example.com">> => config.ForceSSL = FALSE

\* a Config was returned for AUTHN_URL=https://app.example.com/authn
C9_Witness ==
    /\ outcome = "returned"
    /\ env.AUTHN_URL = <<"https://app.example.com/authn">>
    /\ config.ForceSSL = TRUE
    /\ config.MountedPath = "/authn"

\* C10: a returned Config has ApplicationDomains equal to the comma-separated
\* items of APP_DOMAINS, in order, and UsernameDomains equal to those of
\* EMAIL_USERNAME_DOMAINS when that setting is present.
C10_DomainLists ==
    outcome = "returned" =>
        /\ env.APP_DOMAINS # <<>> =>
              config.ApplicationDomains = Split(env.APP_DOMAINS[1], ",")
        /\ env.EMAIL_USERNAME_DOMAINS # <<>> =>
              config.UsernameDomains = Split(env.EMAIL_USERNAME_DOMAINS[1], ",")

(***************************************************************************)
(* Further properties of the account store                                 *)
(***************************************************************************)
\* no two rows with deleted_at null store the same username
LiveUsernamesDistinct(accts) ==
    \A i, j \in 1..Len(accts) :
        (i # j /\ IsLive(accts[i]) /\ IsLive(accts[j]))
            => accts[i].username # accts[j].username

\* C11: no two live accounts hold the same username in any reachable state;
\* a Create, or an UpdateUsername of a live account, with a username that
\* another live account holds fails with ConstraintViolation and leaves both
\* tables unchanged.
C11_LiveUsernamesUnique ==
    /\ [](LiveUsernamesDistinct(accounts))
    /\ [][(Returned("Create") /\ HeldByLive(accounts, ret'.arg))
              => /\ ret'.err = ConstraintViolation
                 /\ accounts' = accounts
                 /\ oauth_accounts' = oauth_accounts]_vars
    /\ [][( /\ Returned("UpdateUsername")
            /\ Exists(accounts, ret'.id)
            /\ UniqueUsernameViolated(accounts, ret'.id, ret'.arg, NULL)
            /\ IsLive(accounts[ret'.id]) )
              => /\ ret'.err = ConstraintViolation
                 /\ accounts' = accounts
                 /\ oauth_accounts' = oauth_accounts]_vars

\* UpdateUsername has just been refused for a live account because the other
\* live account holds the requested username
C11_Witness ==
    /\ ret.op = "UpdateUsername"
    /\ ret.err = ConstraintViolation
    /\ Len(accounts) = 2
    /\ IsLive(accounts[1]) /\ IsLive(accounts[2])
    /\ accounts[3 - ret.id].username = ret.arg
    /\ accounts[ret.id].username # ret.arg

\* the error kind the specification names for a lookup that finds nothing
NotFound == "NotFound"

\* what a returning AddOauthAccount did, given the error kind expected for an
\* account_id that references no account: nothing but report that error, or
\* else append exactly one row owned by the account
LinkedOrRefused(refusal) ==
    Returned("AddOauthAccount") =>
        IF ~Exists(accounts, ret'.id)
        THEN /\ ret'.err = refusal
             /\ oauth_accounts' = oauth_accounts
             /\ accounts' = accounts
        ELSE /\ ret'.err = NoErr
             /\ Len(oauth_accounts') = Len(oauth_accounts) + 1
             /\ SubSeq(oauth_accounts', 1, Len(oauth_accounts)) = oauth_accounts
             /\ oauth_accounts'[Len(oauth_accounts')].account_id = ret'.id
             /\ oauth_accounts'[Len(oauth_accounts')].provider_id = ret'.arg
             /\ accounts' = accounts

\* C13 (as stated): AddOauthAccount with an account_id that references no
\* account fails with NotFound and adds no row; with an existing account_id it
\* adds exactly one row, also when the account has a link for that provider.
C13_LinkOauthAccountNotFound == [][LinkedOrRefused(NotFound)]_vars

\* C13 (amended): AddOauthAccount with an account_id that references no
\* account fails with the storage layer's foreign-key ConstraintViolation and
\* adds no row; with an existing account_id it adds exactly one row, also when
\* the account has a link for that provider.
C13_LinkOauthAccount == [][LinkedOrRefused(ConstraintViolation)]_vars

\* a link to an account that does not exist has just been refused, while
\* account 1 holds two links for the same provider
C13_Witness ==
    /\ ret.op = "AddOauthAccount"
    /\ ret.err = ConstraintViolation
    /\ ~Exists(accounts, ret.id)
    /\ Len(OauthRowsOf(oauth_accounts, 1)) = 2
    /\ oauth_accounts[1].provider = oauth_accounts[2].provider

\* the records the three lookups can return in the current state
LookupResults ==
    {Find(accounts, id) : id \in AccountIDs}
        \cup {FindByUsername(accounts, u) : u \in LookupNames}
        \cup {FindByOauthAccount(accounts, oauth_accounts, pr, pid) :
                 pr \in Providers, pid \in ProviderIDs}

\* C16: in every reachable state, a record returned by Find, FindByUsername
\* or FindByOauthAccount whose deleted_at is set never carries a username the
\* account stored while it was live.
C16_ArchivedNeverUnderFormerName ==
    \A r \in LookupResults :
        (r # <<>> /\ r[1].deleted_at # NULL) => r[1].username \notin held[r[1].id]

\* C17: once Archive(id) has returned (the account's deleted_at is set), no
\* row of oauth_accounts is owned by the account in any later state:
\* GetOauthAccounts(id) is empty and FindByOauthAccount never returns the
\* account, whatever AddOauthAccount calls ran between Archive's two
\* statements or after them.
C17_NoOauthRowsAfterArchive ==
    \A id \in AccountIDs :
        (Exists(accounts, id) /\ accounts[id].deleted_at # NULL) =>
            /\ GetOauthAccounts(oauth_accounts, id) = <<>>
            /\ \A pr \in Providers, pid \in ProviderIDs :
                  LET found == FindByOauthAccount(accounts, oauth_accounts, pr, pid)
                  IN  found = <<>> \/ found[1].id # id

\* C18: only SetPassword clears require_new_password: a step that finds the
\* flag of an existing account true and leaves it false is a SetPassword call
\* for that account; Create, AddOauthAccount, Lock, Unlock,
\* RequireNewPassword, UpdateUsername and Archive leave a true flag true.
C18_OnlySetPasswordClearsFlag ==
    [][\A id \in AccountIDs :
          (Exists(accounts, id) /\ accounts[id].require_new_password)
              => /\ Exists(accounts', id)
                 /\ \/ accounts'[id].require_new_password
                    \/ Returned("SetPassword") /\ ret'.id = id]_vars

\* Archive has just returned for an account whose require_new_password was
\* set, and the flag is still set
C18_Witness ==
    /\ ret.op = "Archive"
    /\ Exists(accounts, ret.id)
    /\ accounts[ret.id].deleted_at # NULL
    /\ accounts[ret.id].require_new_password

\* what a returning Lock or Unlock did to an existing account: it succeeded,
\* left locked at the given value whatever it was before, and changed nothing
\* else than locked and updated_at of that row
LockedTo(op, value) ==
    (Returned(op) /\ Exists(accounts, ret'.id)) =>
        /\ ret'.err = NoErr
        /\ accounts'[ret'.id].locked = value
        /\ accounts'[ret'.id].updated_at = now
        /\ accounts' = [accounts EXCEPT ![ret'.id] =
                           [@ EXCEPT !.locked     = value,
                                     !.updated_at = now]]
        /\ oauth_accounts' = oauth_accounts

\* C19: Lock(id) leaves locked = true and Unlock(id) leaves locked = false
\* for an existing account whatever locked was before, both succeed also when
\* the account is already in that state, and both change nothing but locked
\* and updated_at of that account: no other field, no other account, no row
\* of oauth_accounts.
C19_LockUnlock == [][LockedTo("Lock", TRUE) /\ LockedTo("Unlock", FALSE)]_vars

\* Unlock has just returned for an account that was never locked: the calls
\* so far are two Creates, one AddOauthAccount and this Unlock, so the other
\* account and the oauth row are there to be left alone
C19_Witness ==
    /\ ret.op = "Unlock"
    /\ ret.err = NoErr
    /\ calls = 4
    /\ Len(accounts) = 2
    /\ Len(oauth_accounts) = 1
    /\ Exists(accounts, ret.id)
    /\ accounts[ret.id].locked = FALSE

\* the account's row exists with deleted_at set, and Find returns it with
\* deleted_at set and an empty username
ArchivedFor(accts, id) ==
    /\ Exists(accts, id)
    /\ accts[id].deleted_at # NULL
    /\ Find(accts, id) # <<>>
    /\ Find(accts, id)[1].deleted_at # NULL
    /\ Find(accts, id)[1].username = ""

\* C20: archival is irreversible: once an account's deleted_at is set, no
\* call (Create, AddOauthAccount, Lock, Unlock, RequireNewPassword,
\* SetPassword, UpdateUsername, another Archive) sets it back to null or
\* removes the row, and in that state and every later one Find(id) returns
\* the record with deleted_at set and an empty username.
C20_ArchivalIrreversible ==
    /\ [](\A id \in AccountIDs :
             (Exists(accounts, id) /\ accounts[id].deleted_at # NULL)
                 => ArchivedFor(accounts, id))
    /\ [][\A id \in AccountIDs :
             (Exists(accounts, id) /\ accounts[id].deleted_at # NULL)
                 => ArchivedFor(accounts', id)]_vars

\* UpdateUsername has just rewritten the stored username of an archived
\* account, which is still archived
C20_Witness ==
    /\ ret.op = "UpdateUsername"
    /\ ret.err = NoErr
    /\ Exists(accounts, ret.id)
    /\ accounts[ret.id].deleted_at # NULL
    /\ accounts[ret.id].username = ret.arg

(***************************************************************************)
(* Further properties of the configuration loader                          *)
(***************************************************************************)
\* C12: a returned Config has PasswordMinComplexity in 0..4, equal to 2 when
\* PASSWORD_POLICY_SCORE is not set; loading is aborted when the setting is
\* an integer outside 0..4.
C12_PasswordPolicyScoreRange ==
    /\ outcome = "returned" =>
          /\ config.PasswordMinComplexity \in 0..4
          /\ env.PASSWORD_POLICY_SCORE = <<>> => config.PasswordMinComplexity = 2
    /\ (outcome # "running" /\ env.PASSWORD_POLICY_SCORE = <<"5">>) =>
          outcome = "panic" /\ loadErr # NoErr


\* the URL-valued required settings and the Config field each one fills
UrlSettings == {"AUTHN_URL", "DATABASE_URL", "REDIS_URL"}

UrlField(c, name) ==
    CASE name = "AUTHN_URL"    -> c.AuthNURL
      [] name = "DATABASE_URL" -> c.DatabaseURL
      [] name = "REDIS_URL"    -> c.RedisURL

\* C15: when AUTHN_URL, DATABASE_URL or REDIS_URL is present but does not
\* parse as a URL, loading is aborted with an error and ReadEnv returns no
\* Config; no returned Config has AuthNURL, DatabaseURL or RedisURL unset.
C15_UnparsableURLAborts ==
    \A name \in UrlSettings :
        /\ outcome = "returned" => UrlField(config, name) # <<>>
        /\ ( /\ outcome # "running"
             /\ env[name] # <<>>
             /\ UrlParse(env[name][1]).err # NoErr )
              => outcome = "panic" /\ loadErr # NoErr

====
